---- MODULE Spec2Model ----
(***************************************************************************)
(* A model of rackcorpapi: the DnsRecord / DnsDomain codec (dns.py,        *)
(* dicthelp.py), the DNS operations of _dnsOperations (dns.py) and of the  *)
(* older api.Client (api.py), and the two certbot hooks (__main__.py).     *)
(*                                                                         *)
(* Python values are tagged tuples: None, IntV(n), StrV(s) with s a sequence *)
(* of characters, and Enum(name) for a DnsRecordType member.  A dict is a  *)
(* function whose DOMAIN is its key set, so `key in d` is key \in DOMAIN d.*)
(***************************************************************************)
EXTENDS Integers, Sequences, FiniteSets, TLC

VARIABLES
    c_src,      \* codec run: the input, "record", "wire" or "domain_wire"
    c_pc,       \* codec run: "start", "encoded", "decoded", "decode_error"
    c_rec,      \* codec run: the DnsRecord handed to to_dict (or None)
    c_wire,     \* codec run: the wire dictionary (to_dict's result, or an input)
    c_out,      \* codec run: from_dict's result
    o_pc,       \* one DNS operation: "idle", then "done"
    o_client,   \* the class called: "_dnsOperations" (dns.py) or "Client" (api.py)
    o_op,       \* the operation called
    o_arg,      \* its argument (a DnsRecord, an id, or None)
    o_resp,     \* the HTTP response the server gives to its request
    o_calls,    \* the requests it issued
    o_result,   \* what it returned or raised
    h_hook,     \* hook run: "CertbotAuthHook" or "CertbotCleanupHook" (sys.argv[1])
    h_env,      \* hook run: the process environment, a dict of variables
    h_files,    \* hook run: the two credential config files (None: no such file)
    h_pc,       \* hook run: position in main()
    h_new_record, \* hook run: the candidate record
    h_client,   \* hook run: TRUE once client.Client() is constructed
    h_domain_id,  \* hook run: what _find_domain_id returned
    h_record_id,  \* hook run: what _find_record_id returned
    h_calls,    \* hook run: the requests issued, in order
    h_answers,  \* hook run: the responses received, in order
    h_slept,    \* hook run: seconds spent in time.sleep
    h_exit,     \* hook run: main()'s return value, None while running or raised
    h_raised,   \* hook run: the exception that left main(), or "none"
    k_pc,       \* credential lookup: "start", then "resolved"
    k_env,      \* credential lookup: the process environment
    k_files,    \* credential lookup: the two config files, in config_paths order
    k_cred      \* credential lookup: what get_api_credentials returned

codecVars == <<c_src, c_pc, c_rec, c_wire, c_out>>
opVars == <<o_pc, o_client, o_op, o_arg, o_resp, o_calls, o_result>>
hookVars == <<h_hook, h_env, h_files, h_pc, h_new_record, h_client, h_domain_id,
              h_record_id, h_calls, h_answers, h_slept, h_exit, h_raised>>

credVars == <<k_pc, k_env, k_files, k_cred>>

vars == <<codecVars, opVars, hookVars, credVars>>

-----------------------------------------------------------------------------
(* Python values *)

None == <<"None">>
IntV(n) == <<"int", n>>
StrV(s) == <<"str", s>>
Enum(name) == <<"DnsRecordType", name>>

\* Python truthiness of the values the model uses: None, 0 and "" are falsy.
Truthy(v) == v # None /\ v # IntV(0) /\ v # StrV(<<>>)

EmptyDict == [k \in {} |-> None]

\* dict.get(key): the value, or None when the key is absent.
DictGet(d, key) == IF key \in DOMAIN d THEN d[key] ELSE None

-----------------------------------------------------------------------------
(* Bounds and the value sets the inputs are drawn from *)

MaxInt == 2          \* integer field values range over 0..MaxInt

IntVals == {IntV(n) : n \in 0..MaxInt}
OptInt == {None} \cup IntVals

\* the members of DnsRecordType
DnsRecordTypeNames ==
    {"A", "AHASHED", "AAAA", "CAA", "CNAME", "MX", "NS", "PTR", "TXT", "SRV"}

ExampleCom == StrV(<<"e", ".", "c">>)
ZoneNames == {StrV(<<>>), ExampleCom}
OptZoneName == {None} \cup ZoneNames

-----------------------------------------------------------------------------
(* dicthelp.get_first *)

\* a get_first that probes the spellings in the reverse order
RECURSIVE get_first_reversed(_, _, _)
get_first_reversed(d, keys, default) ==
    IF keys = <<>> THEN default
    ELSE IF keys[Len(keys)] \in DOMAIN d THEN d[keys[Len(keys)]]
    ELSE get_first_reversed(d, SubSeq(keys, 1, Len(keys) - 1), default)

RECURSIVE get_first(_, _, _)
get_first(d, keys, default) ==
    IF keys = <<>> THEN default
    ELSE IF Head(keys) \in DOMAIN d THEN d[Head(keys)]
    ELSE get_first(d, Tail(keys), default)

CustomerIdKeys == <<"customerid", "customerId", "customerID">>
DomainIdKeys == <<"domainid", "domainId", "domainID">>
RegionIdKeys == <<"regionid", "regionId", "regionID">>

DomainIdKeySet == {"domainid", "domainId", "domainID"}

-----------------------------------------------------------------------------
(* DnsRecordType: str(member) and DnsRecordType(string) *)

EnumToStr(t) == StrV(<<t[2]>>)

IsTypeString(v) ==
    /\ v[1] = "str"
    /\ Len(v[2]) = 1
    /\ v[2][1] \in DnsRecordTypeNames

StrToEnum(v) == Enum(v[2][1])

-----------------------------------------------------------------------------
(* DnsRecord *)

DnsRecord(lookup, type, data) ==
    [lookup |-> lookup, type |-> type, data |-> data,
     caa_tag |-> None, caa_flag |-> None, customer_id |-> None,
     domain_id |-> None, domain_name |-> None, id |-> None, port |-> None,
     priority |-> None, region_id |-> None, ttl |-> None, weight |-> None]

\* from_dict raises KeyError / ValueError unless the three required keys are
\* present and the type names a DnsRecordType member.
DnsRecord_decodable(d) ==
    /\ {"lookup", "type", "data"} \subseteq DOMAIN d
    /\ IsTypeString(d["type"])

DnsRecord_from_dict(d) ==
    [lookup |-> d["lookup"],
     type |-> StrToEnum(d["type"]),
     data |-> d["data"],
     caa_tag |-> DictGet(d, "caatag"),
     caa_flag |-> DictGet(d, "caaflag"),
     customer_id |-> get_first(d, CustomerIdKeys, None),
     domain_id |-> get_first(d, DomainIdKeys, None),
     domain_name |-> DictGet(d, "name"),
     id |-> DictGet(d, "id"),
     port |-> DictGet(d, "port"),
     priority |-> DictGet(d, "priority"),
     region_id |-> get_first(d, RegionIdKeys, None),
     ttl |-> DictGet(d, "ttl"),
     weight |-> DictGet(d, "weight")]

\* the three keys to_dict always writes
ToDictBase(r) ==
    ("type" :> EnumToStr(r.type)) @@ ("lookup" :> r.lookup) @@ ("data" :> r.data)

\* a to_dict that writes both references when both are populated
ToDictDomainRefBoth(r) ==
    (IF Truthy(r.domain_id)
     THEN ("domainid" :> r.domain_id) @@ ("domainId" :> r.domain_id)
          @@ ("domainID" :> r.domain_id)
     ELSE EmptyDict)
    @@ (IF Truthy(r.domain_name) THEN ("name" :> r.domain_name) ELSE EmptyDict)

\* the domain reference: `if self.domain_id: ... elif self.domain_name: ...`
ToDictDomainRef(r) ==
    IF Truthy(r.domain_id)
    THEN ("domainid" :> r.domain_id) @@ ("domainId" :> r.domain_id)
         @@ ("domainID" :> r.domain_id)
    ELSE IF Truthy(r.domain_name) THEN ("name" :> r.domain_name)
    ELSE EmptyDict

\* the `opts` dictionary of to_dict
ToDictOpts(r) ==
    ("id" :> r.id) @@ ("caatag" :> r.caa_tag) @@ ("caaflag" :> r.caa_flag)
    @@ ("customerid" :> r.customer_id) @@ ("customerId" :> r.customer_id)
    @@ ("customerID" :> r.customer_id)
    @@ ("port" :> r.port) @@ ("priority" :> r.priority)
    @@ ("regionid" :> r.region_id) @@ ("regionId" :> r.region_id)
    @@ ("regionID" :> r.region_id)
    @@ ("ttl" :> r.ttl) @@ ("weight" :> r.weight)

\* a filter that tests `if value:` instead
ToDictKeptTruthy(opts) ==
    [k \in {key \in DOMAIN opts : Truthy(opts[key])} |-> opts[k]]

\* `for key, value in opts.items(): if value is not None: d[key] = value`
ToDictKept(opts) ==
    [k \in {key \in DOMAIN opts : opts[key] # None} |-> opts[k]]

\* later assignments to d override earlier ones (f @@ g prefers f)
DnsRecord_to_dict(r) ==
    ToDictKept(ToDictOpts(r)) @@ ToDictDomainRef(r) @@ ToDictBase(r)

-----------------------------------------------------------------------------
(* DnsDomain *)

RECURSIVE DecodeRecords(_)
DecodeRecords(rs) ==
    IF rs = <<>> THEN <<>>
    ELSE <<DnsRecord_from_dict(Head(rs))>> \o DecodeRecords(Tail(rs))

DnsDomain_decodable(d) ==
    /\ "id" \in DOMAIN d
    /\ "records" \in DOMAIN d =>
          \A i \in 1..Len(d["records"]) : DnsRecord_decodable(d["records"][i])

DnsDomain_from_dict(d) ==
    [id |-> d["id"],
     customer_id |-> get_first(d, CustomerIdKeys, None),
     serial |-> DictGet(d, "serial"),
     stdname |-> DictGet(d, "stdname"),
     name |-> DictGet(d, "name"),
     type |-> DictGet(d, "type"),
     last_modified |-> DictGet(d, "lastmodified"),
     records |-> IF "records" \in DOMAIN d THEN DecodeRecords(d["records"])
                 ELSE <<>>]

-----------------------------------------------------------------------------
(* HTTP responses and the outcome of a call *)

HTTP_OK == 200
HTTP_SERVER_ERROR == 500

OkCode == StrV(<<"OK">>)
ErrCode == StrV(<<"ERR_X">>)
BadRequest == StrV(<<"bad request">>)

Response(status, json) == [status_code |-> status, json |-> json]

\* the JSON envelope {"code": ..., "message": ..., "data": ...}
Envelope(code, message) == ("code" :> code) @@ ("message" :> message)
EnvelopeData(code, message, data) == ("data" :> data) @@ Envelope(code, message)

Returned(v) == [kind |-> "return", value |-> v]
Raised(exc, detail) == [kind |-> exc, value |-> detail]

GetRequest(path) == [method |-> "GET", url |-> path, body |-> None]
\* POST {base}rest/{api_version}/json.php
LegacyPost(body) == [method |-> "POST", url |-> <<"rest/json.php">>, body |-> body]

\* _api.raise_request_exception(response): the transport error
raise_request_exception(response) ==
    Raised("RequestException", IntV(response.status_code))

\* _api.raise_if_json_code_not_ok(d): raises when the envelope's code is not "OK"
json_code_not_ok(d) == DictGet(d, "code") # OkCode
ApiError(d) == Raised("ApiError", DictGet(d, "message"))

\* api.Client._raise_request_exception: raise_for_status() raises HTTPError, a
\* RequestException, for 4xx/5xx; any other status raises RequestException
Client_raise_request_exception(response) ==
    Raised("RequestException", IntV(response.status_code))

-----------------------------------------------------------------------------
(* _dnsOperations (dns.py): each operation maps its arguments and the
   server's response to the requests it issues and what it returns or raises *)

\* a decoding loop that builds the list back to front
RECURSIVE DecodeDomains_reversed(_)
DecodeDomains_reversed(ds) ==
    IF ds = <<>> THEN <<>>
    ELSE DecodeDomains_reversed(Tail(ds)) \o <<DnsDomain_from_dict(Head(ds))>>

RECURSIVE DecodeDomains(_)
DecodeDomains(ds) ==
    IF ds = <<>> THEN <<>>
    ELSE <<DnsDomain_from_dict(Head(ds))>> \o DecodeDomains(Tail(ds))

domain_getall(resp) ==
    [calls |-> <<GetRequest(<<"dns/domain">>)>>,
     result |->
        IF resp.status_code # HTTP_OK THEN raise_request_exception(resp)
        ELSE IF json_code_not_ok(resp.json) THEN ApiError(resp.json)
        ELSE Returned(DecodeDomains(
                 IF "data" \in DOMAIN resp.json THEN resp.json["data"] ELSE <<>>))]

domain_get(domain_id, resp) ==
    [calls |-> <<GetRequest(<<"dns/domain/", domain_id>>)>>,
     result |->
        IF resp.status_code # HTTP_OK THEN raise_request_exception(resp)
        ELSE IF json_code_not_ok(resp.json) THEN ApiError(resp.json)
        ELSE Returned(DnsDomain_from_dict(resp.json["data"]))]

record_get(record_id, resp) ==
    [calls |-> <<GetRequest(<<"dns/records/", record_id>>)>>,
     result |->
        IF resp.status_code # HTTP_OK THEN raise_request_exception(resp)
        ELSE IF json_code_not_ok(resp.json) THEN ApiError(resp.json)
        ELSE Returned(DnsRecord_from_dict(resp.json["data"]))]

\* a record_delete that tests the HTTP status only
record_delete_status_only(record_id, resp) ==
    [calls |-> <<LegacyPost([cmd |-> "dns.record.delete", id |-> record_id])>>,
     result |->
        IF resp.status_code # HTTP_OK THEN raise_request_exception(resp)
        ELSE Returned(None)]

record_delete(record_id, resp) ==
    [calls |-> <<LegacyPost([cmd |-> "dns.record.delete", id |-> record_id])>>,
     result |->
        IF resp.status_code # HTTP_OK THEN raise_request_exception(resp)
        ELSE IF json_code_not_ok(resp.json) THEN ApiError(resp.json)
        ELSE Returned(None)]

\* a record_create without the domain-reference check
record_create_unchecked(record, resp) ==
    [calls |-> <<LegacyPost([cmd |-> "dns.record.create",
                             data |-> [key |-> IntV(0),
                                       value |-> DnsRecord_to_dict(record)]])>>,
     result |->
        IF resp.status_code # HTTP_OK THEN raise_request_exception(resp)
        ELSE IF json_code_not_ok(resp.json) THEN ApiError(resp.json)
        ELSE Returned(DnsRecord_from_dict(resp.json["data"][1]))]

record_create(record, resp) ==
    LET d == DnsRecord_to_dict(record) IN
    IF "domainid" \notin DOMAIN d /\ "name" \notin DOMAIN d
    THEN [calls |-> <<>>,
          result |-> Raised("ValueError",
              StrV(<<"Either domain_id or domain_name must be provided">>))]
    ELSE [calls |-> <<LegacyPost([cmd |-> "dns.record.create",
                                  data |-> [key |-> IntV(0), value |-> d]])>>,
          result |->
             IF resp.status_code # HTTP_OK THEN raise_request_exception(resp)
             ELSE IF json_code_not_ok(resp.json) THEN ApiError(resp.json)
             ELSE Returned(DnsRecord_from_dict(resp.json["data"][1]))]

record_update(record, resp) ==
    [calls |-> <<LegacyPost([cmd |-> "dns.record.update",
                             data |-> [key |-> record.id,
                                       value |-> DnsRecord_to_dict(record)]])>>,
     result |->
        IF resp.status_code # HTTP_OK THEN raise_request_exception(resp)
        ELSE IF json_code_not_ok(resp.json) THEN ApiError(resp.json)
        ELSE Returned(DnsRecord_from_dict(resp.json["data"][1]))]

-----------------------------------------------------------------------------
(* api.Client (api.py): the older client; its operations return the raw
   `data` of the envelope and never look at the envelope's code *)

\* response.json()["data"], a KeyError when the envelope has no data
Client_data(resp) ==
    IF "data" \in DOMAIN resp.json THEN Returned(resp.json["data"])
    ELSE Raised("KeyError", StrV(<<"data">>))

\* response.json()["data"][0]
Client_data0(resp) ==
    IF "data" \in DOMAIN resp.json THEN Returned(resp.json["data"][1])
    ELSE Raised("KeyError", StrV(<<"data">>))

Client_dns_domain_getall(resp) ==
    [calls |-> <<GetRequest(<<"dns/domain">>)>>,
     result |-> IF resp.status_code # HTTP_OK
                THEN Client_raise_request_exception(resp)
                ELSE Client_data(resp)]

Client_dns_domain_get(domain_id, resp) ==
    [calls |-> <<GetRequest(<<"dns/domain/", domain_id>>)>>,
     result |-> IF resp.status_code # HTTP_OK
                THEN Client_raise_request_exception(resp)
                ELSE Client_data(resp)]

Client_dns_record_get(record_id, resp) ==
    [calls |-> <<GetRequest(<<"dns/records/", record_id>>)>>,
     result |-> IF resp.status_code # HTTP_OK
                THEN Client_raise_request_exception(resp)
                ELSE Client_data(resp)]

Client_dns_record_delete(record_id, resp) ==
    [calls |-> <<LegacyPost([cmd |-> "dns.record.delete", id |-> record_id])>>,
     result |-> IF resp.status_code # HTTP_OK
                THEN Client_raise_request_exception(resp)
                ELSE Client_data(resp)]

\* api.Client._dns_record_to_dict: as DnsRecord.to_dict, with one spelling of
\* customer id and region id and no id key (api.DnsRecord has no id field)
Client_dns_record_to_dict(r) ==
    LET opts == ("caatag" :> r.caa_tag) @@ ("caaflag" :> r.caa_flag)
                @@ ("customerid" :> r.customer_id) @@ ("port" :> r.port)
                @@ ("priority" :> r.priority) @@ ("regionid" :> r.region_id)
                @@ ("ttl" :> r.ttl) @@ ("weight" :> r.weight)
    IN  [k \in {key \in DOMAIN opts : opts[key] # None} |-> opts[k]]
        @@ ToDictDomainRef(r) @@ ToDictBase(r)

Client_dns_record_create(record, resp) ==
    LET d == Client_dns_record_to_dict(record) IN
    IF "domainid" \notin DOMAIN d /\ "name" \notin DOMAIN d
    THEN [calls |-> <<>>,
          result |-> Raised("ValueError",
              StrV(<<"Either domain_id or domain_name must be provided">>))]
    ELSE [calls |-> <<LegacyPost([cmd |-> "dns.record.create",
                                  data |-> [key |-> IntV(0), value |-> d]])>>,
          result |-> IF resp.status_code # HTTP_OK
                     THEN Client_raise_request_exception(resp)
                     ELSE Client_data0(resp)]

\* record.id is read although api.DnsRecord declares no id: the model's records
\* carry the id field the caller has set
Client_dns_record_update(record, resp) ==
    [calls |-> <<LegacyPost([cmd |-> "dns.record.update",
                             data |-> [key |-> record.id,
                                       value |-> Client_dns_record_to_dict(record)]])>>,
     result |-> IF resp.status_code # HTTP_OK
                THEN Client_raise_request_exception(resp)
                ELSE Client_data0(resp)]

-----------------------------------------------------------------------------
(* What the server may answer *)

MaxLen == 3          \* CERTBOT_DOMAIN has at most MaxLen characters
MaxDomains == 2      \* domains in a domain_getall answer
MaxRecords == 2      \* records in a domain_get answer

Chars == {"f", "."}
Strings(n) == UNION {[1..k -> Chars] : k \in 0..n}
SeqsUpTo(S, n) == UNION {[1..k -> S] : k \in 0..n}

\* f"_acme-challenge.{record_name}"
AcmeLookup(record_name) == StrV(<<"_acme-challenge", ".">> \o record_name[2])

\* ids are assigned by the server: non-empty strings
Id8 == StrV(<<"8">>)
Id9 == StrV(<<"9">>)
Id77 == StrV(<<"77">>)
Id78 == StrV(<<"78">>)

\* zones of the account; two names that differ in case only
WireZones ==
    {("id" :> i) @@ ("name" :> n) :
        i \in {Id8, Id9}, n \in {StrV(<<"f">>), StrV(<<"F">>)}}

\* records of a zone: the challenge record, and records that differ from it
\* in the lookup or in the type
WireZoneRecords ==
    {("id" :> i) @@ ("lookup" :> lt[1]) @@ ("type" :> StrV(<<lt[2]>>))
        @@ ("data" :> StrV(<<"old">>)) :
        i \in {Id77, Id78},
        lt \in {<<AcmeLookup(StrV(<<"f">>)), "TXT">>,
                <<AcmeLookup(StrV(<<"f">>)), "A">>,
                <<StrV(<<"www">>), "TXT">>}}

DomainListData == SeqsUpTo(WireZones, MaxDomains)
DomainData ==
    {("records" :> rs) @@ z : z \in WireZones, rs \in SeqsUpTo(WireZoneRecords, MaxRecords)}

\* the answers to one request whose successful payload is drawn from `datas`:
\* HTTP 200 with code OK, HTTP 200 with an error code (with or without data),
\* or an HTTP error status
OkAnswers(datas) ==
    {Response(HTTP_OK, EnvelopeData(OkCode, StrV(<<>>), d)) : d \in datas}
ApiErrorAnswers(datas) ==
    {Response(HTTP_OK, Envelope(ErrCode, BadRequest))}
    \cup {Response(HTTP_OK, EnvelopeData(ErrCode, BadRequest, d)) : d \in datas}
HttpErrorAnswers ==
    {Response(HTTP_SERVER_ERROR, Envelope(ErrCode, BadRequest))}
Answers(datas) == OkAnswers(datas) \cup ApiErrorAnswers(datas) \cup HttpErrorAnswers

-----------------------------------------------------------------------------
(* cred.get_api_credentials *)

Whitespace == {" "}

\* str.strip()
RECURSIVE LStrip(_)
LStrip(s) == IF s # <<>> /\ Head(s) \in Whitespace THEN LStrip(Tail(s)) ELSE s
RECURSIVE RStrip(_)
RStrip(s) ==
    IF s # <<>> /\ s[Len(s)] \in Whitespace
    THEN RStrip(SubSeq(s, 1, Len(s) - 1)) ELSE s
Strip(v) == StrV(RStrip(LStrip(v[2])))

\* os.getenv(name, "")
Getenv(env, name) == IF name \in DOMAIN env THEN env[name] ELSE StrV(<<>>)

ApiCredential(api_uuid, api_secret) ==
    [api_uuid |-> api_uuid, api_secret |-> api_secret]

\* Results that may be None are <<>> (None) or <<value>>.

\* the credential one config file yields: a file is <<>> when the path does not
\* exist, else <<config>>; it must have a [general] section and non-blank
\* apiuuid and apisecret
CredentialOfFile(file) ==
    IF file = <<>> THEN <<>>
    ELSE IF "general" \notin DOMAIN file[1] THEN <<>>
    ELSE LET api_uuid == Strip(Getenv(file[1]["general"], "apiuuid"))
             api_secret == Strip(Getenv(file[1]["general"], "apisecret"))
         IN  IF Truthy(api_uuid) /\ Truthy(api_secret)
             THEN <<ApiCredential(api_uuid, api_secret)>> ELSE <<>>

\* `for path in config_paths:` returns the first complete credential
RECURSIVE CredentialOfFiles(_)
CredentialOfFiles(files) ==
    IF files = <<>> THEN <<>>
    ELSE IF CredentialOfFile(Head(files)) # <<>> THEN CredentialOfFile(Head(files))
    ELSE CredentialOfFiles(Tail(files))

\* a lookup that prefers the config files to the environment
get_api_credentials_files_first(env, files) ==
    LET api_uuid == Strip(Getenv(env, "RACKCORP_API_UUID"))
        api_secret == Strip(Getenv(env, "RACKCORP_API_SECRET"))
    IN  IF CredentialOfFiles(files) # <<>> THEN CredentialOfFiles(files)
        ELSE IF Truthy(api_uuid) /\ Truthy(api_secret)
        THEN <<ApiCredential(api_uuid, api_secret)>>
        ELSE <<>>

get_api_credentials(env, files) ==
    LET api_uuid == Strip(Getenv(env, "RACKCORP_API_UUID"))
        api_secret == Strip(Getenv(env, "RACKCORP_API_SECRET"))
    IN  IF Truthy(api_uuid) /\ Truthy(api_secret)
        THEN <<ApiCredential(api_uuid, api_secret)>>
        ELSE CredentialOfFiles(files)

-----------------------------------------------------------------------------
(* __main__: the helpers of the two hooks *)

TTL == 120
PAUSE_SECONDS == 10

\* domain.split(".")[0]
RECURSIVE BeforeFirstDot(_)
BeforeFirstDot(s) ==
    IF s = <<>> \/ Head(s) = "." THEN <<>>
    ELSE <<Head(s)>> \o BeforeFirstDot(Tail(s))

\* _prepare_new_record: <<>> for None, <<record>> otherwise
prepare_new_record(env) ==
    LET domain == DictGet(env, "CERTBOT_DOMAIN")
        validation == DictGet(env, "CERTBOT_VALIDATION")
        record_name == BeforeFirstDot(domain[2])
        zone_name == SubSeq(domain[2], Len(record_name) + 2, Len(domain[2]))
    IN  IF ~Truthy(domain) THEN <<>>
        ELSE <<[DnsRecord(AcmeLookup(StrV(record_name)), Enum("TXT"), validation)
                  EXCEPT !.ttl = IntV(TTL), !.domain_name = StrV(zone_name)]>>

\* a scan that compares zone names ignoring case
Lower(v) == IF v = StrV(<<"F">>) THEN StrV(<<"f">>) ELSE v
RECURSIVE find_domain_id_nocase(_, _)
find_domain_id_nocase(domains, record) ==
    IF domains = <<>> THEN None
    ELSE IF Lower(Head(domains).name) = Lower(record.domain_name)
         THEN Head(domains).id
    ELSE find_domain_id_nocase(Tail(domains), record)

\* _find_domain_id, after domain_getall has returned `domains`
RECURSIVE find_domain_id(_, _)
find_domain_id(domains, record) ==
    IF domains = <<>> THEN None
    ELSE IF Head(domains).name = record.domain_name THEN Head(domains).id
    ELSE find_domain_id(Tail(domains), record)

\* a scan that matches on the lookup alone
RECURSIVE find_record_id_anytype(_, _)
find_record_id_anytype(records, record) ==
    IF records = <<>> THEN None
    ELSE IF Head(records).lookup = record.lookup THEN Head(records).id
    ELSE find_record_id_anytype(Tail(records), record)

\* a scan that matches when either the lookup or the type is equal
RECURSIVE find_record_id_either(_, _)
find_record_id_either(records, record) ==
    IF records = <<>> THEN None
    ELSE IF Head(records).lookup = record.lookup \/ Head(records).type = record.type
         THEN Head(records).id
    ELSE find_record_id_either(Tail(records), record)

\* _find_record_id, after domain_get has returned `dom` (records = dom.records)
RECURSIVE find_record_id(_, _)
find_record_id(records, record) ==
    IF records = <<>> THEN None
    ELSE IF Head(records).lookup = record.lookup /\ Head(records).type = record.type
         THEN Head(records).id
    ELSE find_record_id(Tail(records), record)

-----------------------------------------------------------------------------
(* The codec specification: to_dict and from_dict applied to bounded inputs *)

\* domain_id and port take the full 0..MaxInt range, the other fields one value
OptFlag == {None, IntV(0)}
OptTag == {None, StrV(<<"i">>)}
OptOne == {None, IntV(MaxInt)}
LookupW == StrV(<<"w">>)
DataX == StrV(<<"x">>)
RecordTypes == {Enum(n) : n \in DnsRecordTypeNames}

Records ==
    [lookup : {LookupW}, type : RecordTypes, data : {DataX},
     caa_tag : OptTag, caa_flag : OptFlag, customer_id : OptOne,
     domain_id : OptInt, domain_name : OptZoneName, id : OptOne,
     port : OptInt, priority : OptOne, region_id : OptOne,
     ttl : OptOne, weight : OptOne]

\* every dictionary with keys among `keys` and values in `vals`
DictsOver(keys, vals) == UNION {[ks -> vals] : ks \in SUBSET keys}

WireRequired ==
    ("type" :> StrV(<<"TXT">>)) @@ ("lookup" :> LookupW) @@ ("data" :> DataX)

\* wire dictionaries with any mix of id spellings; a key may carry null
WireRecords ==
    {dom @@ cust @@ reg @@ WireRequired :
        dom \in DictsOver({"domainid", "domainId", "domainID"}, OptInt),
        cust \in {[k \in ks |-> IF k = "customerid" THEN IntV(0)
                               ELSE IF k = "customerId" THEN IntV(1) ELSE None] :
                  ks \in SUBSET {"customerid", "customerId", "customerID"}},
        reg \in {[k \in ks |-> IF k = "regionid" THEN None
                              ELSE IF k = "regionId" THEN IntV(0) ELSE IntV(1)] :
                 ks \in SUBSET {"regionid", "regionId", "regionID"}}}
    \cup {[k \in ks |-> WireRequired[k]] : ks \in SUBSET {"type", "lookup", "data"}}
    \cup {("type" :> StrV(<<"BOGUS">>)) @@ WireRequired}

WireDomains ==
    {cust @@ nm @@ ("id" :> i) :
        cust \in DictsOver({"customerid", "customerId", "customerID"}, OptInt),
        nm \in DictsOver({"name"}, ZoneNames),
        i \in IntVals}

CredIdle ==
    /\ k_pc = "off" /\ k_env = EmptyDict /\ k_files = <<>> /\ k_cred = <<>>

OpIdle ==
    /\ o_pc = "off"
    /\ o_client = "none" /\ o_op = "none" /\ o_arg = None /\ o_resp = None
    /\ o_calls = <<>> /\ o_result = None

HookIdle ==
    /\ h_hook = "none" /\ h_env = EmptyDict /\ h_files = <<>> /\ h_pc = "off"
    /\ h_new_record = None /\ h_client = FALSE
    /\ h_domain_id = None /\ h_record_id = None
    /\ h_calls = <<>> /\ h_answers = <<>> /\ h_slept = 0
    /\ h_exit = None /\ h_raised = "none"

CodecInit ==
    /\ CredIdle
    /\ OpIdle
    /\ HookIdle
    /\ c_out = None
    /\ c_pc = "start"
    /\ \/ c_src = "record" /\ c_rec \in Records /\ c_wire = None
       \/ c_src = "wire" /\ c_rec = None /\ c_wire \in WireRecords
       \/ c_src = "domain_wire" /\ c_rec = None /\ c_wire \in WireDomains

\* d = record.to_dict()
Encode ==
    /\ c_pc = "start" /\ c_src = "record"
    /\ c_wire' = DnsRecord_to_dict(c_rec)
    /\ c_pc' = "encoded"
    /\ UNCHANGED <<c_src, c_rec, c_out>>
    /\ UNCHANGED <<opVars, hookVars, credVars>>

\* DnsRecord.from_dict(d), of an encoded record or of a wire dictionary
Decode ==
    /\ c_pc = "encoded" \/ (c_pc = "start" /\ c_src = "wire")
    /\ IF DnsRecord_decodable(c_wire)
       THEN c_out' = DnsRecord_from_dict(c_wire) /\ c_pc' = "decoded"
       ELSE c_out' = None /\ c_pc' = "decode_error"
    /\ UNCHANGED <<c_src, c_rec, c_wire>>
    /\ UNCHANGED <<opVars, hookVars, credVars>>

\* DnsDomain.from_dict(d)
DecodeDomain ==
    /\ c_pc = "start" /\ c_src = "domain_wire"
    /\ DnsDomain_decodable(c_wire)
    /\ c_out' = DnsDomain_from_dict(c_wire)
    /\ c_pc' = "decoded"
    /\ UNCHANGED <<c_src, c_rec, c_wire>>
    /\ UNCHANGED <<opVars, hookVars, credVars>>

CodecNext == Encode \/ Decode \/ DecodeDomain

-----------------------------------------------------------------------------
(* The operations specification: one call of one operation of either client *)

\* the records handed to record_create / record_update
OpRecords ==
    {[DnsRecord(LookupW, Enum("TXT"), DataX) EXCEPT
         !.domain_id = di, !.domain_name = dn, !.id = i, !.ttl = t] :
        di \in OptInt, dn \in OptZoneName, i \in {None, Id77}, t \in OptOne}

OpIds == {Id9, Id77}
RecordData == WireZoneRecords
RecordListData == {<<r>> : r \in WireZoneRecords}

CodecIdle ==
    /\ c_src = None /\ c_pc = "idle" /\ c_rec = None /\ c_wire = None
    /\ c_out = None

OpInit ==
    /\ CredIdle
    /\ CodecIdle
    /\ HookIdle
    /\ o_pc = "idle"
    /\ o_client = "none" /\ o_op = "none" /\ o_arg = None /\ o_resp = None
    /\ o_calls = <<>> /\ o_result = None

OpDone(client, op, arg, resp, out) ==
    /\ o_pc' = "done"
    /\ o_client' = client /\ o_op' = op /\ o_arg' = arg /\ o_resp' = resp
    /\ o_calls' = out.calls /\ o_result' = out.result
    /\ UNCHANGED <<codecVars, hookVars, credVars>>

\* the elements of a domain listing: zones with id and name, a zone without
\* a name, and a zone with further fields; a listing carries no records
WireListed ==
    WireZones
    \cup {("id" :> Id8)}
    \cup {("id" :> Id9) @@ ("name" :> StrV(<<"f">>)) @@ ("customerId" :> IntV(1))
            @@ ("type" :> StrV(<<"master">>))}

\* the answers to GET dns/domain, among them a success without `data`
DomainListAnswers ==
    Answers(SeqsUpTo(WireListed, MaxDomains))
    \cup {Response(HTTP_OK, Envelope(OkCode, StrV(<<>>)))}

Op_domain_getall ==
    /\ o_pc = "idle"
    /\ \E resp \in DomainListAnswers :
          OpDone("_dnsOperations", "domain_getall", None, resp, domain_getall(resp))

Op_domain_get ==
    /\ o_pc = "idle"
    /\ \E id \in OpIds, resp \in Answers(DomainData) :
          OpDone("_dnsOperations", "domain_get", id, resp, domain_get(id, resp))

Op_record_get ==
    /\ o_pc = "idle"
    /\ \E id \in OpIds, resp \in Answers(RecordData) :
          OpDone("_dnsOperations", "record_get", id, resp, record_get(id, resp))

Op_record_delete ==
    /\ o_pc = "idle"
    /\ \E id \in OpIds, resp \in Answers({<<>>}) :
          OpDone("_dnsOperations", "record_delete", id, resp, record_delete(id, resp))

Op_record_create ==
    /\ o_pc = "idle"
    /\ \E r \in OpRecords, resp \in Answers(RecordListData) :
          OpDone("_dnsOperations", "record_create", r, resp, record_create(r, resp))

Op_record_update ==
    /\ o_pc = "idle"
    /\ \E r \in OpRecords, resp \in Answers(RecordListData) :
          OpDone("_dnsOperations", "record_update", r, resp, record_update(r, resp))

Op_Client_dns_domain_getall ==
    /\ o_pc = "idle"
    /\ \E resp \in Answers(DomainListData) :
          OpDone("Client", "domain_getall", None, resp, Client_dns_domain_getall(resp))

Op_Client_dns_domain_get ==
    /\ o_pc = "idle"
    /\ \E id \in OpIds, resp \in Answers(DomainData) :
          OpDone("Client", "domain_get", id, resp, Client_dns_domain_get(id, resp))

Op_Client_dns_record_get ==
    /\ o_pc = "idle"
    /\ \E id \in OpIds, resp \in Answers(RecordData) :
          OpDone("Client", "record_get", id, resp, Client_dns_record_get(id, resp))

Op_Client_dns_record_delete ==
    /\ o_pc = "idle"
    /\ \E id \in OpIds, resp \in Answers({<<>>}) :
          OpDone("Client", "record_delete", id, resp, Client_dns_record_delete(id, resp))

Op_Client_dns_record_create ==
    /\ o_pc = "idle"
    /\ \E r \in OpRecords, resp \in Answers(RecordListData) :
          OpDone("Client", "record_create", r, resp, Client_dns_record_create(r, resp))

Op_Client_dns_record_update ==
    /\ o_pc = "idle"
    /\ \E r \in OpRecords, resp \in Answers(RecordListData) :
          OpDone("Client", "record_update", r, resp, Client_dns_record_update(r, resp))

OpNext ==
    \/ Op_domain_getall \/ Op_domain_get \/ Op_record_get
    \/ Op_record_delete \/ Op_record_create \/ Op_record_update
    \/ Op_Client_dns_domain_getall \/ Op_Client_dns_domain_get
    \/ Op_Client_dns_record_get \/ Op_Client_dns_record_delete
    \/ Op_Client_dns_record_create \/ Op_Client_dns_record_update

-----------------------------------------------------------------------------
(* The hook specification: one run of CertbotAuthHook or CertbotCleanupHook.
   Each step runs main() up to and including its next network call; the
   server's answer to that call is chosen when the call is made. *)

CertbotDomains == {StrV(s) : s \in Strings(MaxLen)}
Token == StrV(<<"tok">>)

\* the process environment: each CERTBOT_ variable set or not, the API key
\* pair set or not
HookEnvs ==
    {dom @@ val @@ key :
        dom \in DictsOver({"CERTBOT_DOMAIN"}, CertbotDomains),
        val \in DictsOver({"CERTBOT_VALIDATION"}, {Token}),
        key \in {EmptyDict,
                 ("RACKCORP_API_UUID" :> StrV(<<"u">>))
                     @@ ("RACKCORP_API_SECRET" :> StrV(<<"s">>))}}

\* the answers the hooks' requests may get: success with a payload, an
\* API-semantic error, or an HTTP error
HookAnswers(datas) ==
    OkAnswers(datas) \cup {Response(HTTP_OK, Envelope(ErrCode, BadRequest))}
    \cup HttpErrorAnswers

HookInit ==
    /\ CredIdle
    /\ CodecIdle
    /\ OpIdle
    /\ h_hook \in {"CertbotAuthHook", "CertbotCleanupHook"}
    /\ h_env \in HookEnvs
    /\ h_files = <<<<>>, <<>>>>
    /\ h_pc = "start"
    /\ h_new_record = None
    /\ h_client = FALSE
    /\ h_domain_id = None /\ h_record_id = None
    /\ h_calls = <<>> /\ h_answers = <<>>
    /\ h_slept = 0
    /\ h_exit = None /\ h_raised = "none"

HookOthers == UNCHANGED <<codecVars, opVars, credVars, h_hook, h_env, h_files>>

\* return `code` from main()
HookReturn(code) ==
    /\ h_pc' = "done" /\ h_exit' = IntV(code) /\ h_raised' = "none"

\* an exception leaves main() uncaught
HookRaise(exc) ==
    /\ h_pc' = "raised" /\ h_exit' = None /\ h_raised' = exc

\* main(), both hooks: new_record = _prepare_new_record(); return 1 if None
H_Prepare ==
    /\ h_pc = "start"
    /\ LET new_record == prepare_new_record(h_env) IN
       IF new_record = <<>>
       THEN HookReturn(1) /\ UNCHANGED h_new_record
       ELSE /\ h_new_record' = new_record[1]
            /\ h_pc' = "client"
            /\ UNCHANGED <<h_exit, h_raised>>
    /\ UNCHANGED <<h_client, h_domain_id, h_record_id, h_calls, h_answers, h_slept>>
    /\ HookOthers

\* self.client = client.Client(): raises ValueError without credentials
H_Client ==
    /\ h_pc = "client"
    /\ IF get_api_credentials(h_env, h_files) = <<>>
       THEN HookRaise("ValueError") /\ UNCHANGED h_client
       ELSE /\ h_client' = TRUE
            /\ h_pc' = "find_domain"
            /\ UNCHANGED <<h_exit, h_raised>>
    /\ UNCHANGED <<h_new_record, h_domain_id, h_record_id, h_calls, h_answers, h_slept>>
    /\ HookOthers

\* domain_id = _find_domain_id(...); return 1 if not domain_id, else
\* new_record.domain_id = domain_id
H_FindDomain ==
    /\ h_pc = "find_domain"
    /\ \E resp \in HookAnswers(DomainListData) :
          LET out == domain_getall(resp) IN
          /\ h_calls' = h_calls \o out.calls
          /\ h_answers' = Append(h_answers, resp)
          /\ IF out.result.kind # "return"
             THEN HookRaise(out.result.kind)
                  /\ UNCHANGED <<h_domain_id, h_new_record>>
             ELSE LET domain_id == find_domain_id(out.result.value, h_new_record) IN
                  /\ h_domain_id' = domain_id
                  /\ IF ~Truthy(domain_id)
                     THEN HookReturn(1) /\ UNCHANGED h_new_record
                     ELSE /\ h_new_record' =
                                [h_new_record EXCEPT !.domain_id = domain_id]
                          /\ h_pc' = "find_record"
                          /\ UNCHANGED <<h_exit, h_raised>>
    /\ UNCHANGED <<h_client, h_record_id, h_slept>>
    /\ HookOthers

\* the zone the server returns for the domain the hook asks for
ZoneData(domain_id, name) ==
    {("records" :> rs) @@ ("id" :> domain_id) @@ ("name" :> name) :
        rs \in SeqsUpTo(WireZoneRecords, MaxRecords)}

\* record_id = _find_record_id(self.client, new_record)
H_FindRecord ==
    /\ h_pc = "find_record"
    /\ \E resp \in HookAnswers(ZoneData(h_new_record.domain_id,
                                        h_new_record.domain_name)) :
          LET out == domain_get(h_new_record.domain_id, resp) IN
          /\ h_calls' = h_calls \o out.calls
          /\ h_answers' = Append(h_answers, resp)
          /\ IF out.result.kind # "return"
             THEN HookRaise(out.result.kind) /\ UNCHANGED h_record_id
             ELSE /\ h_record_id' =
                        find_record_id(out.result.value.records, h_new_record)
                  /\ h_pc' = "mutate"
                  /\ UNCHANGED <<h_exit, h_raised>>
    /\ UNCHANGED <<h_client, h_new_record, h_domain_id, h_slept>>
    /\ HookOthers

\* what the server echoes for a created or updated record
EchoData(record) == {<<DnsRecord_to_dict(record)>>}

\* CertbotAuthHook, `if record_id:` new_record.id = record_id; record_update
H_Update ==
    /\ h_pc = "mutate" /\ h_hook = "CertbotAuthHook"
    /\ Truthy(h_record_id)
    /\ LET record == [h_new_record EXCEPT !.id = h_record_id] IN
       /\ h_new_record' = record
       /\ \E resp \in HookAnswers(EchoData(record)) :
             LET out == record_update(record, resp) IN
             /\ h_calls' = h_calls \o out.calls
             /\ h_answers' = Append(h_answers, resp)
             /\ IF out.result.kind # "return"
                THEN HookRaise(out.result.kind)
                ELSE h_pc' = "pause" /\ UNCHANGED <<h_exit, h_raised>>
    /\ UNCHANGED <<h_client, h_domain_id, h_record_id, h_slept>>
    /\ HookOthers

\* CertbotAuthHook, `else:` record_create
H_Create ==
    /\ h_pc = "mutate" /\ h_hook = "CertbotAuthHook"
    /\ ~Truthy(h_record_id)
    /\ \E resp \in HookAnswers(EchoData([h_new_record EXCEPT !.id = Id77])) :
          LET out == record_create(h_new_record, resp) IN
          /\ h_calls' = h_calls \o out.calls
          /\ h_answers' = Append(h_answers, resp)
          /\ IF out.result.kind # "return"
             THEN HookRaise(out.result.kind)
             ELSE h_pc' = "pause" /\ UNCHANGED <<h_exit, h_raised>>
    /\ UNCHANGED <<h_client, h_new_record, h_domain_id, h_record_id, h_slept>>
    /\ HookOthers

\* CertbotAuthHook: time.sleep(10); return 0
H_Pause ==
    /\ h_pc = "pause"
    /\ h_slept' = h_slept + PAUSE_SECONDS
    /\ HookReturn(0)
    /\ UNCHANGED <<h_client, h_new_record, h_domain_id, h_record_id, h_calls,
                   h_answers>>
    /\ HookOthers

\* CertbotCleanupHook, `if record_id:` record_delete(record_id); return 0
H_Delete ==
    /\ h_pc = "mutate" /\ h_hook = "CertbotCleanupHook"
    /\ Truthy(h_record_id)
    /\ \E resp \in HookAnswers({<<>>}) :
          LET out == record_delete(h_record_id, resp) IN
          /\ h_calls' = h_calls \o out.calls
          /\ h_answers' = Append(h_answers, resp)
          /\ IF out.result.kind # "return"
             THEN HookRaise(out.result.kind)
             ELSE HookReturn(0)
    /\ UNCHANGED <<h_client, h_new_record, h_domain_id, h_record_id, h_slept>>
    /\ HookOthers

\* CertbotCleanupHook, no record id: return 0
H_NoDelete ==
    /\ h_pc = "mutate" /\ h_hook = "CertbotCleanupHook"
    /\ ~Truthy(h_record_id)
    /\ HookReturn(0)
    /\ UNCHANGED <<h_client, h_new_record, h_domain_id, h_record_id, h_calls,
                   h_answers, h_slept>>
    /\ HookOthers

HookNext ==
    \/ H_Prepare \/ H_Client \/ H_FindDomain \/ H_FindRecord
    \/ H_Update \/ H_Create \/ H_Pause \/ H_Delete \/ H_NoDelete

-----------------------------------------------------------------------------
(* The credential specification: one call of cred.get_api_credentials in an
   environment and with config files drawn from small sets. *)

\* values of a variable or of a config key: empty, blank, and padded names
CredValues(names) ==
    {StrV(<<>>), StrV(<<" ">>)} \cup {StrV(<<" ", n, " ">>) : n \in names}

CredEnvs ==
    {u @@ x :
        u \in DictsOver({"RACKCORP_API_UUID"}, CredValues({"eu"})),
        x \in DictsOver({"RACKCORP_API_SECRET"}, CredValues({"es"}))}

\* a parsed config file: its sections, [general] with apiuuid / apisecret
CredConfigs ==
    {EmptyDict} \cup
    {("general" :> (u @@ x)) :
        u \in DictsOver({"apiuuid"}, CredValues({"p", "q"})),
        x \in DictsOver({"apisecret"}, CredValues({"p", "q"}))}

\* a config path: <<>> when os.path.exists is false, else <<config>>
CredFiles == {<<>>} \cup {<<c>> : c \in CredConfigs}

CredInit ==
    /\ CodecIdle
    /\ OpIdle
    /\ HookIdle
    /\ k_pc = "start"
    /\ k_env \in CredEnvs
    /\ k_files \in CredFiles \X CredFiles
    /\ k_cred = <<>>

\* get_api_credentials()
Resolve ==
    /\ k_pc = "start"
    /\ k_cred' = get_api_credentials(k_env, k_files)
    /\ k_pc' = "resolved"
    /\ UNCHANGED <<k_env, k_files, codecVars, opVars, hookVars>>

CredNext == Resolve

-----------------------------------------------------------------------------
(* Claims about the hooks, checked under Spec *)

AuthHook == h_hook = "CertbotAuthHook"
CleanupHook == h_hook = "CertbotCleanupHook"
Ended == h_pc \in {"done", "raised"}
EnvSet(name) == name \in DOMAIN h_env

AnswerOk(resp) == resp.status_code = HTTP_OK /\ resp.json["code"] = OkCode
AllAnswersOk == \A i \in 1..Len(h_answers) : AnswerOk(h_answers[i])

\* the zone name and the candidate lookup the environment asks for
RequestedZone ==
    LET d == h_env["CERTBOT_DOMAIN"][2]
    IN  StrV(SubSeq(d, Len(BeforeFirstDot(d)) + 2, Len(d)))
CandidateLookup ==
    StrV(<<"_acme-challenge", ".">> \o BeforeFirstDot(h_env["CERTBOT_DOMAIN"][2]))

\* domain_getall has answered, and what it returned
GetallReturned == Len(h_answers) >= 1 /\ AnswerOk(h_answers[1])
ListedZones == h_answers[1].json["data"]
ZoneListed ==
    \E i \in 1..Len(ListedZones) : ListedZones[i]["name"] = RequestedZone

\* domain_get has answered, and the records of the fetched domain
DomainFetched == Len(h_answers) >= 2 /\ AnswerOk(h_answers[2])
FetchedRecords == h_answers[2].json["data"]["records"]
Matches(r) == r["lookup"] = CandidateLookup /\ r["type"] = StrV(<<"TXT">>)
MatchingIds ==
    {FetchedRecords[i]["id"] :
        i \in {j \in 1..Len(FetchedRecords) : Matches(FetchedRecords[j])}}

\* the requests of each kind, by their position in h_calls
Posts(cmd) ==
    {i \in 1..Len(h_calls) :
        h_calls[i].method = "POST" /\ h_calls[i].body.cmd = cmd}
Creates == Posts("dns.record.create")
Updates == Posts("dns.record.update")
Deletes == Posts("dns.record.delete")
DomainGets ==
    {i \in 1..Len(h_calls) :
        h_calls[i].method = "GET" /\ h_calls[i].url[1] = "dns/domain/"}

\* C1: an auth run with both inputs set, the zone listed and every call
\* answered successfully ends with exit code 0 after exactly one mutating
\* call: a record_update carrying the id of a matching record (and no create)
\* when the fetched domain has a record with the candidate's lookup and type
\* TXT, otherwise a record_create with the candidate's lookup, type TXT and
\* the found domain's id (and no update).
C1_AuthOneMutation ==
    (/\ AuthHook /\ Ended
     /\ EnvSet("CERTBOT_DOMAIN") /\ EnvSet("CERTBOT_VALIDATION")
     /\ GetallReturned /\ ZoneListed /\ AllAnswersOk) =>
        /\ h_pc = "done" /\ h_exit = IntV(0)
        /\ DomainFetched
        /\ Cardinality(Creates \cup Updates \cup Deletes) = 1
        /\ IF MatchingIds # {}
           THEN /\ Creates = {}
                /\ \A i \in Updates :
                      /\ h_calls[i].body.data.key \in MatchingIds
                      /\ h_calls[i].body.data.value["id"] = h_calls[i].body.data.key
           ELSE /\ Updates = {}
                /\ \A i \in Creates :
                      LET d == h_calls[i].body.data.value IN
                      /\ d["lookup"] = CandidateLookup
                      /\ d["type"] = StrV(<<"TXT">>)
                      /\ d["domainid"] = h_domain_id
                      /\ \E z \in 1..Len(ListedZones) :
                            /\ ListedZones[z]["name"] = RequestedZone
                            /\ ListedZones[z]["id"] = d["domainid"]

\* an auth run that updated an existing challenge record and returned 0
C1_Witness ==
    /\ AuthHook /\ h_pc = "done" /\ h_exit = IntV(0)
    /\ EnvSet("CERTBOT_VALIDATION")
    /\ Updates # {} /\ Creates = {}
    /\ DomainFetched /\ Cardinality(MatchingIds) = 2

\* C2: in either hook, when domain_getall returns and none of the domains
\* has a name equal (case-sensitively) to the requested zone, the run returns
\* exit code 1 having issued no request but domain_getall.
C2_ZoneNotFound ==
    (GetallReturned /\ ~ZoneListed) =>
        /\ h_pc = "done" /\ h_exit = IntV(1)
        /\ Len(h_calls) = 1
        /\ DomainGets = {} /\ Creates = {} /\ Updates = {} /\ Deletes = {}

\* a run that found only a zone whose name differs in case, and returned 1
C2_Witness ==
    /\ h_pc = "done" /\ h_exit = IntV(1)
    /\ GetallReturned /\ ~ZoneListed
    /\ Len(ListedZones) >= 1
    /\ \A i \in 1..Len(ListedZones) : Lower(ListedZones[i]["name"]) = RequestedZone

\* C3: a cleanup run with the zone listed and every call answered
\* successfully returns exit code 0; it calls record_delete exactly when the
\* fetched domain has a record with the candidate's lookup and type TXT, then
\* once and with the id of a matching record; it never calls record_create
\* or record_update.
C3_CleanupDeleteIff ==
    /\ CleanupHook => (Creates = {} /\ Updates = {})
    /\ (CleanupHook /\ Ended /\ GetallReturned /\ ZoneListed /\ AllAnswersOk) =>
          /\ h_pc = "done" /\ h_exit = IntV(0)
          /\ DomainFetched
          /\ Deletes # {} <=> MatchingIds # {}
          /\ Cardinality(Deletes) <= 1
          /\ \A i \in Deletes : h_calls[i].body.id \in MatchingIds

\* a cleanup run that found no matching record among some, and returned 0
C3_Witness ==
    /\ CleanupHook /\ h_pc = "done" /\ h_exit = IntV(0)
    /\ DomainFetched /\ Len(FetchedRecords) >= 1 /\ MatchingIds = {}
    /\ Deletes = {}

\* C4 (as claimed): in either hook, when CERTBOT_DOMAIN or CERTBOT_VALIDATION
\* is missing, the run returns exit code 1 at once: no client is constructed
\* and no request is issued.
C4_MissingInputFails ==
    (~EnvSet("CERTBOT_DOMAIN") \/ ~EnvSet("CERTBOT_VALIDATION")) =>
        /\ ~h_client
        /\ h_calls = <<>>
        /\ Ended => (h_pc = "done" /\ h_exit = IntV(1))

\* the calls of a run so far: domain_getall, then domain_get, then at most
\* one create, update or delete
CallsInOrder ==
    /\ Len(h_calls) <= 3 /\ Len(h_answers) = Len(h_calls)
    /\ Len(h_calls) >= 1 =>
          (h_calls[1].method = "GET" /\ h_calls[1].url = <<"dns/domain">>)
    /\ Len(h_calls) >= 2 => DomainGets = {2}
    /\ Len(h_calls) >= 3 => (Creates \cup Updates \cup Deletes) = {3}

\* a failed call is the last call of its run, which ends without exit code 0
FailureIsTerminal ==
    \A i \in 1..Len(h_answers) :
        ~AnswerOk(h_answers[i]) =>
            /\ i = Len(h_calls)
            /\ h_pc = "raised" /\ h_exit # IntV(0)

\* the auth hook pauses after a successful create or update only, and
\* returns 0 after the pause only
PauseAfterMutation ==
    /\ (h_pc = "pause" \/ h_slept > 0) =>
          /\ AuthHook
          /\ Len(h_calls) = 3 /\ (Creates \cup Updates) = {3}
          /\ AllAnswersOk
    /\ (AuthHook /\ h_exit = IntV(0)) => h_slept = PAUSE_SECONDS

\* a step adds at most one call, and none once a call has failed or the run
\* has ended
OneCallAtATime ==
    h_calls' # h_calls =>
        /\ Len(h_calls') = Len(h_calls) + 1
        /\ SubSeq(h_calls', 1, Len(h_calls)) = h_calls
        /\ AllAnswersOk
        /\ ~Ended

\* C13: in every hook run the calls are made one at a time in the order
\* domain_getall, domain_get, then at most one mutating call; a call that
\* fails (HTTP error or API error) is never followed by another call and the
\* run does not return exit code 0; the auth hook pauses only after its
\* mutating call has succeeded and returns 0 only after the pause.
C13_SequentialNoRetry ==
    /\ [](CallsInOrder /\ FailureIsTerminal /\ PauseAfterMutation)
    /\ [][OneCallAtATime]_vars

\* an auth run whose update was refused by the API after two good answers:
\* it ended with the exception, without pause or exit code
C13_Witness ==
    /\ AuthHook /\ h_pc = "raised" /\ h_raised = "ApiError"
    /\ Len(h_calls) = 3 /\ Updates = {3}
    /\ AnswerOk(h_answers[1]) /\ AnswerOk(h_answers[2]) /\ ~AnswerOk(h_answers[3])
    /\ h_slept = 0 /\ h_exit = None

-----------------------------------------------------------------------------
(* Claims about the operations, checked under SpecOps *)

\* C5: record_create on a record with neither domain_id nor domain_name
\* raises ValueError and issues no request; and every request record_create
\* does issue carries a payload with a domain reference (the domain-id keys
\* or `name`).
C5_CreateNeedsDomainRef ==
    (o_pc = "done" /\ o_op = "record_create") =>
        /\ (o_arg.domain_id = None /\ o_arg.domain_name = None) =>
              (o_result.kind = "ValueError" /\ o_calls = <<>>)
        /\ \A i \in 1..Len(o_calls) :
              LET payload == o_calls[i].body.data.value IN
              \/ DomainIdKeySet \subseteq DOMAIN payload
              \/ "name" \in DOMAIN payload

\* _dnsOperations.record_create refused a record without a domain reference
C5_Witness ==
    /\ o_pc = "done" /\ o_op = "record_create" /\ o_client = "_dnsOperations"
    /\ o_arg.domain_id = None /\ o_arg.domain_name = None
    /\ o_result.kind = "ValueError" /\ o_calls = <<>>

\* C6 (as claimed): whenever an operation's request is answered with HTTP 200
\* and an envelope whose code is not "OK", the operation raises the
\* API-semantic error carrying the envelope's message and returns nothing;
\* a non-200 status raises the transport error, a different kind.
C6_ApiErrorRaised ==
    (o_pc = "done" /\ o_calls # <<>>) =>
        /\ (o_resp.status_code = HTTP_OK /\ o_resp.json["code"] # OkCode) =>
              /\ o_result.kind = "ApiError"
              /\ o_result.value = o_resp.json["message"]
        /\ o_resp.status_code # HTTP_OK => o_result.kind = "RequestException"

\* C12: when domain_getall's request is answered with HTTP 200 and code OK,
\* it returns one DnsDomain per element of the answer's `data`, in the same
\* order, each with that element's id and name; a field the element lacks is
\* None and records is empty; an answer without `data` gives the empty list.
C12_DomainListDecoded ==
    (/\ o_pc = "done" /\ o_client = "_dnsOperations" /\ o_op = "domain_getall"
     /\ o_resp.status_code = HTTP_OK /\ o_resp.json["code"] = OkCode) =>
        LET data == IF "data" \in DOMAIN o_resp.json THEN o_resp.json["data"]
                    ELSE <<>>
            Field(d, key) == IF key \in DOMAIN d THEN d[key] ELSE None
        IN  /\ o_result.kind = "return"
            /\ Len(o_result.value) = Len(data)
            /\ \A i \in 1..Len(data) :
                  /\ o_result.value[i].id = data[i]["id"]
                  /\ o_result.value[i].name = Field(data[i], "name")
                  /\ o_result.value[i].type = Field(data[i], "type")
                  /\ o_result.value[i].customer_id = Field(data[i], "customerId")
                  /\ o_result.value[i].serial = Field(data[i], "serial")
                  /\ o_result.value[i].stdname = Field(data[i], "stdname")
                  /\ o_result.value[i].last_modified = Field(data[i], "lastmodified")
                  /\ o_result.value[i].records = <<>>

\* domain_getall decoded a listing of two different zones, the second of
\* them without a name
C12_Witness ==
    /\ o_pc = "done" /\ o_client = "_dnsOperations" /\ o_op = "domain_getall"
    /\ o_result.kind = "return" /\ Len(o_result.value) = 2
    /\ o_result.value[1].id = Id9 /\ o_result.value[1].name = StrV(<<"F">>)
    /\ o_result.value[2].id = Id8 /\ o_result.value[2].name = None

-----------------------------------------------------------------------------
(* Claims about the credential lookup, checked under SpecCred *)

\* the (id, secret) pair each source holds, trimmed; "" where it has none
EnvPair ==
    <<Strip(Getenv(k_env, "RACKCORP_API_UUID")),
      Strip(Getenv(k_env, "RACKCORP_API_SECRET"))>>
FileExists(i) == k_files[i] # <<>>
FilePair(i) ==
    IF FileExists(i) /\ "general" \in DOMAIN k_files[i][1]
    THEN LET general == k_files[i][1]["general"] IN
         <<IF "apiuuid" \in DOMAIN general
               THEN Strip(general["apiuuid"]) ELSE StrV(<<>>),
           IF "apisecret" \in DOMAIN general
               THEN Strip(general["apisecret"]) ELSE StrV(<<>>)>>
    ELSE <<StrV(<<>>), StrV(<<>>)>>
SourcePairs == {EnvPair, FilePair(1), FilePair(2)}
Complete(pair) == pair[1] # StrV(<<>>) /\ pair[2] # StrV(<<>>)
CredOf(pair) == [api_uuid |-> pair[1], api_secret |-> pair[2]]
FirstExisting(i) == FileExists(i) /\ \A j \in 1..(i - 1) : ~FileExists(j)

\* C11: after get_api_credentials has returned: when both environment
\* variables are non-empty after trimming the result is that pair, whatever
\* the config files hold; when they are not and the first existing config
\* file holds a complete pair the result is that file's pair; a returned
\* credential is always the complete pair of one single source; and when no
\* source holds a complete pair the result is None.
C11_CredentialPrecedence ==
    k_pc = "resolved" =>
        /\ Complete(EnvPair) => k_cred = <<CredOf(EnvPair)>>
        /\ \A i \in 1..2 :
              (~Complete(EnvPair) /\ FirstExisting(i) /\ Complete(FilePair(i)))
                  => k_cred = <<CredOf(FilePair(i))>>
        /\ k_cred # <<>> =>
              \E pair \in SourcePairs : Complete(pair) /\ k_cred = <<CredOf(pair)>>
        /\ (\A pair \in SourcePairs : ~Complete(pair)) => k_cred = <<>>

\* the environment holds only an id and the first file only a secret, yet the
\* lookup returned the second file's own pair
C11_Witness ==
    /\ k_pc = "resolved"
    /\ EnvPair[1] # StrV(<<>>) /\ EnvPair[2] = StrV(<<>>)
    /\ FileExists(1) /\ FilePair(1)[1] = StrV(<<>>) /\ FilePair(1)[2] # StrV(<<>>)
    /\ FileExists(2) /\ Complete(FilePair(2))
    /\ k_cred = <<CredOf(FilePair(2))>>

-----------------------------------------------------------------------------
(* Claims about the codec, checked under SpecCodec *)

\* C7 (as claimed): whenever domain_id is not null the encoding carries the
\* three domain-id keys, each equal to domain_id, and no `name`; whenever
\* domain_id is null and domain_name is not, it carries `name` equal to
\* domain_name and none of the three domain-id keys.
C7_DomainRefExclusive ==
    c_pc = "encoded" =>
        /\ c_rec.domain_id # None =>
              /\ DomainIdKeySet \subseteq DOMAIN c_wire
              /\ \A k \in DomainIdKeySet : c_wire[k] = c_rec.domain_id
              /\ "name" \notin DOMAIN c_wire
        /\ (c_rec.domain_id = None /\ c_rec.domain_name # None) =>
              /\ "name" \in DOMAIN c_wire
              /\ c_wire["name"] = c_rec.domain_name
              /\ DomainIdKeySet \cap DOMAIN c_wire = {}

\* the record field each optional key of the payload is written from
OptionalKeys ==
    {"id", "caatag", "caaflag", "customerid", "customerId", "customerID",
     "port", "priority", "regionid", "regionId", "regionID", "ttl", "weight"}

FieldOfKey(r, k) ==
    CASE k = "id" -> r.id
      [] k = "caatag" -> r.caa_tag
      [] k = "caaflag" -> r.caa_flag
      [] k \in {"customerid", "customerId", "customerID"} -> r.customer_id
      [] k = "port" -> r.port
      [] k = "priority" -> r.priority
      [] k \in {"regionid", "regionId", "regionID"} -> r.region_id
      [] k = "ttl" -> r.ttl
      [] k = "weight" -> r.weight

\* C8: the encoding always has type, lookup and data; each optional key is
\* present exactly when its field is not null, and then carries the field's
\* value; no key of the encoding maps to null.
C8_OptionalOmittedIffNull ==
    c_pc = "encoded" =>
        /\ {"type", "lookup", "data"} \subseteq DOMAIN c_wire
        /\ c_wire["lookup"] = c_rec.lookup /\ c_wire["data"] = c_rec.data
        /\ \A k \in OptionalKeys :
              /\ k \in DOMAIN c_wire <=> FieldOfKey(c_rec, k) # None
              /\ k \in DOMAIN c_wire => c_wire[k] = FieldOfKey(c_rec, k)
        /\ \A k \in DOMAIN c_wire : c_wire[k] # None

\* a record encoded with port null and the falsy caa_flag 0 set
C8_Witness ==
    /\ c_pc = "encoded"
    /\ c_rec.port = None /\ "port" \notin DOMAIN c_wire
    /\ c_rec.caa_flag = IntV(0) /\ "caaflag" \in DOMAIN c_wire
    /\ c_rec.ttl # None /\ "ttl" \in DOMAIN c_wire

\* C9 (as claimed): decode(encode(r)) reproduces every field of r.
C9_RoundTripAll ==
    (c_pc = "decoded" /\ c_src = "record") => c_out = c_rec

\* C9 (amended): decode(encode(r)) reproduces every field of r other than the
\* domain reference, and of the domain reference exactly what to_dict sends:
\* a non-zero domain_id comes back and domain_name then decodes to unset;
\* with domain_id null or zero, domain_id decodes to unset and a non-empty
\* domain_name comes back (an empty one decodes to unset).
C9_RoundTripAmended ==
    (c_pc = "decoded" /\ c_src = "record") =>
        /\ \A f \in DOMAIN c_rec \ {"domain_id", "domain_name"} :
              c_out[f] = c_rec[f]
        /\ c_out.domain_id =
              (IF Truthy(c_rec.domain_id) THEN c_rec.domain_id ELSE None)
        /\ c_out.domain_name =
              (IF ~Truthy(c_rec.domain_id) /\ Truthy(c_rec.domain_name)
               THEN c_rec.domain_name ELSE None)

\* a round trip of a record with domain_id and domain_name both populated
C9_Witness ==
    /\ c_pc = "decoded" /\ c_src = "record"
    /\ Truthy(c_rec.domain_id) /\ Truthy(c_rec.domain_name)
    /\ c_rec.port # None /\ c_rec.id # None

FirstPresent(d, k1, k2, k3) ==
    IF k1 \in DOMAIN d THEN d[k1]
    ELSE IF k2 \in DOMAIN d THEN d[k2]
    ELSE IF k3 \in DOMAIN d THEN d[k3]
    ELSE None

\* C10: from_dict takes customer id, domain id and region id from the first
\* spelling present in the order xid, xId, xID, and leaves the field unset
\* when no spelling is present.
C10_FirstSpellingWins ==
    /\ (c_pc = "decoded" /\ c_src = "wire") =>
          /\ c_out.domain_id =
                FirstPresent(c_wire, "domainid", "domainId", "domainID")
          /\ c_out.customer_id =
                FirstPresent(c_wire, "customerid", "customerId", "customerID")
          /\ c_out.region_id =
                FirstPresent(c_wire, "regionid", "regionId", "regionID")
    /\ (c_pc = "decoded" /\ c_src = "domain_wire") =>
          c_out.customer_id =
              FirstPresent(c_wire, "customerid", "customerId", "customerID")

\* the spec's example: {"domainid": 1, "domainId": 2} decodes to domain_id 1
C10_Witness ==
    /\ c_pc = "decoded" /\ c_src = "wire"
    /\ "domainid" \in DOMAIN c_wire /\ c_wire["domainid"] = IntV(1)
    /\ "domainId" \in DOMAIN c_wire /\ c_wire["domainId"] = IntV(2)
    /\ "domainID" \notin DOMAIN c_wire
    /\ c_out.domain_id = IntV(1)

-----------------------------------------------------------------------------
(* Specifications.  Each runs one part of the library; the variables of the
   other parts stay at their idle values. *)

SpecCodec == CodecInit /\ [][CodecNext]_vars

SpecOps == OpInit /\ [][OpNext]_vars

SpecCred == CredInit /\ [][CredNext]_vars

Spec == HookInit /\ [][HookNext]_vars

====
